---- MODULE Spec2Model ----
(***************************************************************************)
(* A model of functions.py: the subsampling utilities (subsample, get_G),  *)
(* the density functions (log_prior, the three likelihoods and targets)    *)
(* and the two Metropolis-Hastings samplers (grw, pcn), together with the  *)
(* global numpy random generator they all draw from.                       *)
(*                                                                         *)
(* Numbers.  A Python/numpy float is a record [k, v]: k = "fin" with the   *)
(* value v on a fixed-point grid, k = "inf" with the sign v, or k = "nan". *)
(* Finite results outside -FMax..FMax overflow to an infinity, as IEEE     *)
(* doubles do at their own width.  Latent-field values are in units of 1,  *)
(* log-densities in units of 1/2 (so -0.5*m is the integer -m).  Python's  *)
(* None is [k |-> "None"], and a raised exception travels through the      *)
(* operators as [k |-> <exception name>].                                  *)
(***************************************************************************)
EXTENDS Integers, Sequences, FiniteSets, TLC

\* ---------------------------------------------------------------- bounds
\* Largest finite magnitude of the fixed-point floats.
FMax == 40
\* Number of states of the global random generator.
RngMod == 16
\* Largest n_iters a sampler is called with.
MaxIters == 2
\* Largest N subsample and get_G are called with.
MaxN == 4

Workers == {1, 2}

\* ---------------------------------------------------------------- floats
Fin(x) == [k |-> "fin", v |-> x]
PInf == [k |-> "inf", v |-> 1]
NInf == [k |-> "inf", v |-> -1]
NaN == [k |-> "nan", v |-> 0]
None == [k |-> "None", v |-> 0]
Exc(name) == [k |-> name, v |-> 0]

IsFloat(a) == a.k \in {"fin", "inf", "nan"}
IsFinite(a) == a.k = "fin"
IsExc(a) == ~IsFloat(a) /\ a # None

\* Overflow of a finite result.
Sat(x) == IF x > FMax THEN PInf ELSE IF x < -FMax THEN NInf ELSE Fin(x)

\* A binary arithmetic operation of Python: an exception in an operand
\* propagates, None as an operand raises TypeError.
PyBin(a, b, r) ==
  IF IsExc(a) THEN a
  ELSE IF IsExc(b) THEN b
  ELSE IF a = None \/ b = None THEN Exc("TypeError")
  ELSE r

FNeg(a) ==
  IF IsExc(a) THEN a
  ELSE IF a = None THEN Exc("TypeError")
  ELSE IF a.k = "nan" THEN NaN
  ELSE [k |-> a.k, v |-> -a.v]

FAdd(a, b) ==
  PyBin(a, b,
    IF a.k = "nan" \/ b.k = "nan" THEN NaN
    ELSE IF a.k = "inf" /\ b.k = "inf" THEN (IF a.v = b.v THEN a ELSE NaN)
    ELSE IF a.k = "inf" THEN a
    ELSE IF b.k = "inf" THEN b
    ELSE Sat(a.v + b.v))

FSub(a, b) == FAdd(a, FNeg(b))

Sign(x) == IF x > 0 THEN 1 ELSE IF x < 0 THEN -1 ELSE 0

FMul(a, b) ==
  PyBin(a, b,
    IF a.k = "nan" \/ b.k = "nan" THEN NaN
    ELSE IF a.k = "inf" \/ b.k = "inf"
      THEN (IF Sign(a.v) * Sign(b.v) = 0 THEN NaN
            ELSE [k |-> "inf", v |-> Sign(a.v) * Sign(b.v)])
    ELSE Sat(a.v * b.v))

\* The order of the extended reals; every comparison with nan is False.
Ord(a) == IF a.k = "inf" THEN a.v * (FMax + 1) ELSE a.v
FGt(a, b) == a.k # "nan" /\ b.k # "nan" /\ Ord(a) > Ord(b)
FLt(a, b) == a.k # "nan" /\ b.k # "nan" /\ Ord(a) < Ord(b)

\* x / d rounded to the nearest grid point (d > 0).
RoundDiv(x, d) == (2 * x + d) \div (2 * d)

\* A float times the rational q = num/den (den > 0).
FScale(a, q) ==
  IF a.k = "nan" THEN NaN
  ELSE IF a.k = "inf"
    THEN (IF q.num = 0 THEN NaN ELSE [k |-> "inf", v |-> a.v * Sign(q.num)])
  ELSE Sat(RoundDiv(a.v * q.num, q.den))

\* --------------------------------------------------------------- vectors
RECURSIVE FSum(_)
FSum(s) == IF s = <<>> THEN Fin(0) ELSE FAdd(FSum(SubSeq(s, 1, Len(s) - 1)), s[Len(s)])

VecOf(ints) == [j \in 1..Len(ints) |-> Fin(ints[j])]
VAdd(u, w) == [j \in 1..Len(u) |-> FAdd(u[j], w[j])]
VSub(u, w) == [j \in 1..Len(u) |-> FSub(u[j], w[j])]
VScale(u, q) == [j \in 1..Len(u) |-> FScale(u[j], q)]
Dot(u, w) == FSum([j \in 1..Len(u) |-> FMul(u[j], w[j])])
\* A @ u for an integer matrix A (a sequence of rows).
MatVec(A, u) == [r \in 1..Len(A) |-> Dot(VecOf(A[r]), u)]
\* u.T @ A
VecMat(u, A) ==
  [c \in 1..Len(u) |-> FSum([r \in 1..Len(u) |-> FMul(u[r], Fin(A[r][c]))])]

Identity(n) == [r \in 1..n |-> [c \in 1..n |-> IF r = c THEN 1 ELSE 0]]
Transpose(A) == [c \in 1..Len(A) |-> [r \in 1..Len(A) |-> A[r][c]]]
RECURSIVE ISum(_)
ISum(s) == IF s = <<>> THEN 0 ELSE ISum(SubSeq(s, 1, Len(s) - 1)) + s[Len(s)]
MatMul(A, B) ==
  [r \in 1..Len(A) |-> [c \in 1..Len(A) |->
     ISum([m \in 1..Len(A) |-> A[r][m] * B[m][c]])]]

\* -------------------------------------------------------- linear algebra
ISqrt(x) == CHOOSE r \in 0..x : r * r <= x /\ x < (r + 1) * (r + 1)

\* np.linalg.cholesky(K + 1e-6 * np.eye(N)).  The jitter is below the grid's
\* resolution; it only decides the sign test of a pivot (a pivot below zero
\* raises LinAlgError).  The covariances in Ks have no zero pivot.
CholeskyL(K) ==
  LET n == Len(K)
      L[p \in (1..n) \X (1..n)] ==
        LET r == p[1]
            c == p[2]
            s == ISum([m \in 1..(c - 1) |-> L[<<r, m>>] * L[<<c, m>>]])
        IN IF c > r THEN 0
           ELSE IF r = c
             THEN (IF K[r][r] - s < 0 THEN -1 ELSE ISqrt(K[r][r] - s))
           ELSE IF L[<<c, c>>] <= 0 THEN 0
           ELSE (K[r][c] - s) \div L[<<c, c>>]
  IN [r \in 1..n |-> [c \in 1..n |-> L[<<r, c>>]]]

cholesky(K) ==
  LET L == CholeskyL(K)
  IN IF \E r \in 1..Len(K) : L[r][r] <= 0
       THEN [exc |-> "LinAlgError", L |-> <<>>]
       ELSE [exc |-> "", L |-> L]

\* np.linalg.inv of a lower-triangular factor, by forward substitution.
inv(L) ==
  LET n == Len(L)
      I[p \in (1..n) \X (1..n)] ==
        LET r == p[1]
            c == p[2]
            s == ISum([m \in 1..(r - c) |-> L[r][c + m - 1] * I[<<c + m - 1, c>>]])
        IN IF c > r THEN 0
           ELSE RoundDiv((IF r = c THEN 1 ELSE 0) - s, L[r][r])
  IN [r \in 1..n |-> [c \in 1..n |-> I[<<r, c>>]]]

Minor(A, c) ==
  [r \in 1..(Len(A) - 1) |->
     [j \in 1..(Len(A) - 1) |-> A[r + 1][IF j < c THEN j ELSE j + 1]]]

RECURSIVE Det(_)
Det(A) ==
  IF Len(A) = 0 THEN 1
  ELSE ISum([c \in 1..Len(A) |->
              (IF c % 2 = 1 THEN 1 ELSE -1) * A[1][c] * Det(Minor(A, c))])

RECURSIVE Pow(_, _)
Pow(b, n) == IF n = 0 THEN 1 ELSE b * Pow(b, n - 1)
Abs(x) == IF x < 0 THEN -x ELSE x
\* floor(ln x) for x >= 1, with e taken as 19/7.
LnFloor(x) ==
  CHOOSE n \in 0..x : Pow(19, n) <= x * Pow(7, n) /\ x * Pow(7, n + 1) < Pow(19, n + 1)

\* np.linalg.slogdet
slogdet(A) ==
  LET d == Det(A)
  IN [sign |-> Sign(d), logdet |-> IF d = 0 THEN NInf ELSE Fin(LnFloor(Abs(d)))]

\* 0.5 * d * log(2*pi), in units of 1/2.
HalfLog2Pi(d) == RoundDiv(d * 18379, 10000)

\* ------------------------------------------------------------- densities
log_prior(u, K_inverse) ==
  LET d == Len(u)
      mahalanobis == Dot(VecMat(u, K_inverse), u)
      logdetK_inv == slogdet(K_inverse).logdet
      logdetK == FNeg(logdetK_inv)
  IN FSub(FSub(FNeg(mahalanobis), logdetK), Fin(HalfLog2Pi(d)))

log_continuous_likelihood(u, v, G) ==
  LET v_true == MatVec(G, u)
      noise == VSub(v, v_true)
      mahalanobis == FSum([j \in 1..Len(noise) |-> FMul(noise[j], noise[j])])
      n == Len(v)
  IN FSub(FNeg(mahalanobis), Fin(HalfLog2Pi(n)))

\* phi is computed and dropped; the function ends in a bare return.
log_probit_likelihood(u, t, G) ==
  LET phi == MatVec(G, u) IN None

log_poisson_likelihood(u, c, G) == None

log_continuous_target(u, y, K_inverse, G) ==
  FAdd(log_prior(u, K_inverse), log_continuous_likelihood(u, y, G))

log_probit_target(u, t, K_inverse, G) ==
  FAdd(log_prior(u, K_inverse), log_probit_likelihood(u, t, G))

log_poisson_target(u, c, K_inverse, G) ==
  FAdd(log_prior(u, K_inverse), log_poisson_likelihood(u, c, G))

Targets == {"log_continuous_target", "log_probit_target", "log_poisson_target"}
Likelihoods ==
  {"log_continuous_likelihood", "log_probit_likelihood", "log_poisson_likelihood"}

\* The call log_target(u, data, K_inverse, G) of grw.
CallTarget(f, u, data, K_inverse, G) ==
  CASE f = "log_continuous_target" -> log_continuous_target(u, data, K_inverse, G)
    [] f = "log_probit_target" -> log_probit_target(u, data, K_inverse, G)
    [] f = "log_poisson_target" -> log_poisson_target(u, data, K_inverse, G)

\* The call log_likelihood(u, y, G) of pcn.
CallLikelihood(f, u, y, G) ==
  CASE f = "log_continuous_likelihood" -> log_continuous_likelihood(u, y, G)
    [] f = "log_probit_likelihood" -> log_probit_likelihood(u, y, G)
    [] f = "log_poisson_likelihood" -> log_poisson_likelihood(u, y, G)

\* ------------------------------------------------- the global generator
\* The state of numpy's global generator is a number in 0..RngMod-1; every
\* draw advances it.  np.random.seed(s) sets it from s alone.
NextRng(r) == (5 * r + 3) % RngMod
seed(s) == s % RngMod

RECURSIVE RngAfter(_, _)
RngAfter(r, n) == IF n = 0 THEN r ELSE RngAfter(NextRng(r), n - 1)

\* np.random.normal(0, 1, shape): one draw per entry, each in {-1, 0, 1}.
normal(r, n) ==
  [z |-> [j \in 1..n |-> Fin((RngAfter(r, j) % 3) - 1)], rng |-> RngAfter(r, n)]

\* np.log(np.random.random()): the draw is q/4 in [0, 1) and its logarithm,
\* in units of 1/2 rounded down, is below zero; log(0) is -inf.
log_random(r) ==
  LET r1 == NextRng(r)
      q == (r1 \div 4) % 4
  IN [log |-> CASE q = 0 -> NInf
                [] q = 1 -> Fin(-3)
                [] q = 2 -> Fin(-2)
                [] q = 3 -> Fin(-1),
      rng |-> r1]

\* choice with replace=True: a drawn index stays in the pool.
RECURSIVE choice_replace(_, _, _)
choice_replace(r, pool, k) ==
  IF k = 0 THEN [idx |-> <<>>, rng |-> r]
  ELSE LET r1 == NextRng(r)
           p == (r1 % Len(pool)) + 1
           rest == choice_replace(r1, pool, k - 1)
       IN [idx |-> <<pool[p]>> \o rest.idx, rng |-> rest.rng]

\* np.random.choice(N, size=k, replace=False): k draws, each taking one of the
\* indices still in the pool.
RECURSIVE choice(_, _, _)
choice(r, pool, k) ==
  IF k = 0 THEN [idx |-> <<>>, rng |-> r]
  ELSE LET r1 == NextRng(r)
           p == (r1 % Len(pool)) + 1
           rest == choice(r1, SubSeq(pool, 1, p - 1) \o SubSeq(pool, p + 1, Len(pool)), k - 1)
       IN [idx |-> <<pool[p]>> \o rest.idx, rng |-> rest.rng]

\* ----------------------------------------------------- subsample, get_G
\* ceil(N / factor) for the rational factor = num/den > 0.
CeilDiv(N, factor) == -((-(N * factor.den)) \div factor.num)

\* subsample(N, factor, seed); sd = -1 stands for seed=None.  A seed of 0 is
\* falsy and leaves the generator as it is.
subsample(N, factor, sd, r) ==
  IF factor.num < factor.den
    THEN [exc |-> "AssertionError", idx |-> <<>>, rng |-> r]
    ELSE LET N_sub == CeilDiv(N, factor)
             r0 == IF sd > 0 THEN seed(sd) ELSE r
             ch == choice(r0, [j \in 1..N |-> j - 1], N_sub)
         IN [exc |-> "", idx |-> ch.idx, rng |-> ch.rng]

\* get_G(N, idx): indices are 0-based, rows and columns of the model 1-based.
get_G(N, idx) ==
  LET M == Len(idx)
  IN [r \in 1..M |-> [c \in 1..N |-> IF c = idx[r] + 1 THEN 1 ELSE 0]]

\* ---------------------------------------------------------------- samplers
\* The functions a density callable calls in turn.
Callees(f) ==
  CASE f = "log_continuous_target" -> {"log_prior", "log_continuous_likelihood"}
    [] f = "log_probit_target" -> {"log_prior", "log_probit_likelihood"}
    [] f = "log_poisson_target" -> {"log_prior", "log_poisson_likelihood"}
    [] OTHER -> {}

\* grw's evaluation log_target(u, data, K_inverse, G): its value and the
\* functions it ran.
grw_eval(a, K_inverse, u) ==
  [val |-> CallTarget(a.f, u, a.data, K_inverse, a.G),
   calls |-> {a.f} \cup Callees(a.f)]

\* pcn evaluating the posterior: the prior added to the likelihood.
pcn_eval_prior(a, K_inverse, u) ==
  [val |-> FAdd(log_prior(u, K_inverse), CallLikelihood(a.f, u, a.data, a.G)),
   calls |-> {a.f, "log_prior"} \cup Callees(a.f)]

\* pcn's evaluation log_likelihood(u, y, G).
pcn_eval(a, K_inverse, u) ==
  [val |-> CallLikelihood(a.f, u, a.data, a.G),
   calls |-> {a.f} \cup Callees(a.f)]

Eval(a, K_inverse, u) ==
  IF a.sampler = "grw" THEN grw_eval(a, K_inverse, u) ELSE pcn_eval(a, K_inverse, u)

\* u_new = u_prev + beta * zeta
grw_propose(u_prev, beta, zeta) == VAdd(u_prev, VScale(zeta, beta))

\* np.sqrt(1 - beta**2) as a rational over beta's denominator, or nan.
SqrtOneMinusSq(beta) ==
  LET d == beta.den * beta.den - beta.num * beta.num
  IN IF d < 0 THEN [nan |-> TRUE, num |-> 0, den |-> 1]
     ELSE [nan |-> FALSE, num |-> ISqrt(d), den |-> beta.den]

\* u_new = np.sqrt(1 - beta**2) * u_prev + beta * zeta
pcn_propose(u_prev, beta, zeta) ==
  LET sq == SqrtOneMinusSq(beta)
      shrunk == IF sq.nan THEN [j \in 1..Len(u_prev) |-> NaN]
                ELSE VScale(u_prev, [num |-> sq.num, den |-> sq.den])
  IN VAdd(shrunk, VScale(zeta, beta))

\* A proposal that forgets the step size.
ProposeUnscaled(a, u_prev, zeta) == VAdd(u_prev, zeta)

Propose(a, u_prev, zeta) ==
  IF a.sampler = "grw" THEN grw_propose(u_prev, a.beta, zeta)
  ELSE pcn_propose(u_prev, a.beta, zeta)

\* Accept with >= in place of >.
AcceptGe(log_alpha, log_u) ==
  log_alpha.k # "nan" /\ log_u.k # "nan" /\ Ord(log_alpha) >= Ord(log_u)

\* accept = log_alpha > log_u
Accept(log_alpha, log_u) == FGt(log_alpha, log_u)

\* Bookkeep without the else branch: a rejected pass appends nothing.
BookkeepNoRepeat(s, accept, u_new, lt_new) ==
  IF accept
    THEN [X |-> Append(s.X, u_new), acc |-> s.acc + 1,
          u_prev |-> u_new, lt_prev |-> lt_new]
    ELSE s

\* Bookkeep without lt_prev = lt_new: the cached density goes stale.
BookkeepStaleLt(s, accept, u_new, lt_new) ==
  IF accept
    THEN [X |-> Append(s.X, u_new), acc |-> s.acc + 1,
          u_prev |-> u_new, lt_prev |-> s.lt_prev]
    ELSE [X |-> Append(s.X, s.u_prev), acc |-> s.acc,
          u_prev |-> s.u_prev, lt_prev |-> s.lt_prev]

\* The accept/reject branches: s is [X, acc, u_prev, lt_prev].
Bookkeep(s, accept, u_new, lt_new) ==
  IF accept
    THEN [X |-> Append(s.X, u_new), acc |-> s.acc + 1,
          u_prev |-> u_new, lt_prev |-> lt_new]
    ELSE [X |-> Append(s.X, s.u_prev), acc |-> s.acc,
          u_prev |-> s.u_prev, lt_prev |-> s.lt_prev]

\* One pass through the loop body of grw or pcn, from the loop state s and the
\* generator state r.
Body(a, Kc, K_inverse, s, r) ==
  LET nz == normal(r, Len(s.u_prev))
      zeta == MatVec(Kc, nz.z)
      u_new == Propose(a, s.u_prev, zeta)
      ev == Eval(a, K_inverse, u_new)
      lt_new == ev.val
      log_alpha == FSub(lt_new, s.lt_prev)
      lr == log_random(nz.rng)
      log_u == lr.log
      accept == Accept(log_alpha, log_u)
      raised == IsExc(log_alpha)
  IN [exc |-> IF raised THEN log_alpha.k ELSE "",
      s |-> IF raised THEN s ELSE Bookkeep(s, accept, u_new, lt_new),
      rng |-> IF raised THEN nz.rng ELSE lr.rng,
      u_new |-> u_new, lt_new |-> lt_new,
      log_alpha |-> IF raised THEN None ELSE log_alpha,
      log_u |-> IF raised THEN None ELSE log_u,
      accept |-> ~raised /\ accept,
      calls |-> ev.calls]

\* return X, acc / n_iters
Return(X, acc, n_iters) ==
  IF n_iters = 0 THEN [exc |-> "ZeroDivisionError", X |-> <<>>, rate |-> [num |-> 0, den |-> 1]]
  ELSE [exc |-> "", X |-> X, rate |-> [num |-> acc, den |-> n_iters]]

NoReturn == [exc |-> "", X |-> <<>>, rate |-> [num |-> 0, den |-> 1]]
Raise(e) == [exc |-> e, X |-> <<>>, rate |-> [num |-> 0, den |-> 1]]

\* The statements of grw and pcn before the loop: X = [], acc = 0, u_prev =
\* u0, the factorisation, and the first density evaluation.
Prologue(a) ==
  LET ch == cholesky(a.K)
      Kc_inverse == inv(ch.L)
      K_inv == MatMul(Transpose(Kc_inverse), Kc_inverse)
      ev == Eval(a, K_inv, a.u0)
  IN IF ch.exc # ""
       THEN [exc |-> ch.exc, Kc |-> <<>>, K_inverse |-> <<>>, lt_prev |-> None,
             evals |-> 0, calls |-> {}]
       ELSE [exc |-> IF IsExc(ev.val) THEN ev.val.k ELSE "",
             Kc |-> ch.L, K_inverse |-> K_inv, lt_prev |-> ev.val,
             evals |-> 1, calls |-> ev.calls]

\* n passes through the loop body, one after the other, with the generator
\* to itself.
RECURSIVE Loop(_, _, _, _, _, _)
Loop(a, Kc, K_inverse, s, r, n) ==
  IF n = 0 THEN [exc |-> "", s |-> s, rng |-> r]
  ELSE LET b == Body(a, Kc, K_inverse, s, r)
       IN IF b.exc # "" THEN [exc |-> b.exc, s |-> b.s, rng |-> b.rng]
          ELSE Loop(a, Kc, K_inverse, b.s, b.rng, n - 1)

\* A whole call grw(...) or pcn(...) run without interruption from the
\* generator state r: what it returns or raises.
Run(a, r) ==
  LET p == Prologue(a)
      l == Loop(a, p.Kc, p.K_inverse,
                [X |-> <<>>, acc |-> 0, u_prev |-> a.u0, lt_prev |-> p.lt_prev],
                r, a.n_iters)
  IN IF p.exc # "" THEN Raise(p.exc)
     ELSE IF l.exc # "" THEN Raise(l.exc)
     ELSE Return(l.s.X, l.s.acc, a.n_iters)

\* ------------------------------------------------------------ input sets
Betas ==
  {[num |-> 0, den |-> 1], [num |-> 3, den |-> 5],
   [num |-> 1, den |-> 1], [num |-> 2, den |-> 1]}
U0s == {VecOf(<<0, 0>>), VecOf(<<1, -1>>), VecOf(<<7, 0>>)}
\* The identity, the covariance min(i, j), and an indefinite matrix.
Ks == {Identity(2), <<<<1, 1>>, <<1, 2>>>>, <<<<1, 2>>, <<2, 1>>>>}
Gs == {get_G(2, <<1>>), get_G(2, <<1, 0>>)}
DataFor(G) == {[j \in 1..Len(G) |-> Fin(0)], [j \in 1..Len(G) |-> Fin(1)]}

Callables(sampler) == IF sampler = "grw" THEN Targets ELSE Likelihoods

MkArgs(sampler, f, u0, data, K, G, n_iters, beta) ==
  [sampler |-> sampler, f |-> f, u0 |-> u0, data |-> data, K |-> K, G |-> G,
   n_iters |-> n_iters, beta |-> beta]

AllArgs ==
  UNION {UNION {{MkArgs(sm, f, u0, y, K, G, n, b) :
                    f \in Callables(sm), u0 \in U0s, y \in DataFor(G),
                    K \in Ks, n \in 0..MaxIters, b \in Betas} :
                 sm \in {"grw", "pcn"}} : G \in Gs}

\* The calls of the two-worker configuration.
ParArgs ==
  {MkArgs(sm, CHOOSE f \in Callables(sm) : f \in {"log_continuous_target", "log_continuous_likelihood"},
          VecOf(<<1, -1>>), VecOf(<<1>>), <<<<1, 1>>, <<1, 2>>>>, get_G(2, <<1>>), n, b) :
     sm \in {"grw", "pcn"}, n \in 1..MaxIters, b \in {[num |-> 3, den |-> 5]}}

NoArgs == MkArgs("", "", <<>>, <<>>, <<>>, <<>>, 0, [num |-> 0, den |-> 1])

Factors ==
  {[num |-> 0, den |-> 1], [num |-> 1, den |-> 2], [num |-> 1, den |-> 1],
   [num |-> 3, den |-> 2], [num |-> 2, den |-> 1], [num |-> 3, den |-> 1]}

\* ----------------------------------------------------------------- state
VARIABLES
  rng,        \* the state of numpy's global generator
  pc,         \* per worker: "idle", "loop" (at the head of the loop), "done", "error"
  args,       \* per worker: the arguments of its call
  X, acc, u_prev, lt_prev, i,          \* per worker: the sampler's loop state
  Kc, K_inverse,                       \* per worker: the factorisation
  u_new, lt_new, log_alpha, log_u, accept,   \* per worker: the last pass's locals
  ret,        \* per worker: what the call returned or raised
  evals,      \* per worker: density evaluations made so far
  called,     \* per worker: the density functions that ran
  rng0,       \* per worker: the generator's state when the call started
  alone,      \* per worker: no other draw or seeding happened during the call
  hist,       \* per worker: the accept/reject outcome of every pass so far
  sargs, idx, sexc,   \* the last subsample call: arguments, result, exception
  Gm, gpc     \* the matrix get_G built from idx; the stage of that pipeline

samplerVars ==
  <<pc, args, X, acc, u_prev, lt_prev, i, Kc, K_inverse, u_new, lt_new,
    log_alpha, log_u, accept, ret, evals, called, rng0, alone, hist>>
subVars == <<sargs, idx, sexc, Gm, gpc>>
vars == <<rng, samplerVars, subVars>>

Init ==
  /\ rng \in 0..(RngMod - 1)
  /\ pc = [c \in Workers |-> "idle"]
  /\ args = [c \in Workers |-> NoArgs]
  /\ X = [c \in Workers |-> <<>>]
  /\ acc = [c \in Workers |-> 0]
  /\ u_prev = [c \in Workers |-> <<>>]
  /\ lt_prev = [c \in Workers |-> None]
  /\ i = [c \in Workers |-> 0]
  /\ Kc = [c \in Workers |-> <<>>]
  /\ K_inverse = [c \in Workers |-> <<>>]
  /\ u_new = [c \in Workers |-> <<>>]
  /\ lt_new = [c \in Workers |-> None]
  /\ log_alpha = [c \in Workers |-> None]
  /\ log_u = [c \in Workers |-> None]
  /\ accept = [c \in Workers |-> FALSE]
  /\ ret = [c \in Workers |-> NoReturn]
  /\ evals = [c \in Workers |-> 0]
  /\ called = [c \in Workers |-> {}]
  /\ rng0 = [c \in Workers |-> 0]
  /\ alone = [c \in Workers |-> TRUE]
  /\ hist = [c \in Workers |-> <<>>]
  /\ sargs = [N |-> 0, factor |-> [num |-> 1, den |-> 1], seed |-> -1]
  /\ idx = <<>>
  /\ sexc = ""
  /\ Gm = <<>>
  /\ gpc = "start"

\* ---------------------------------------------------------------- actions
\* np.random.seed(s), called between the sampler runs of the workers W: no
\* run is under way and one is still to come.
Seed(W, s) ==
  /\ \A c \in W : pc[c] # "loop"
  /\ \E c \in W : pc[c] = "idle"
  /\ rng' = seed(s)
  /\ UNCHANGED <<samplerVars, subVars>>

\* Worker c enters grw or pcn with the arguments a and runs up to the head of
\* the loop; with n_iters = 0 the loop is empty and the return statement runs.
Call(c, a) ==
  \E p \in {Prologue(a)} :
    LET rt == Return(<<>>, 0, a.n_iters)
        e == IF p.exc # "" THEN p.exc ELSE IF a.n_iters = 0 THEN rt.exc ELSE ""
    IN /\ pc[c] = "idle"
       /\ pc' = [pc EXCEPT ![c] = IF e # "" THEN "error" ELSE "loop"]
       /\ ret' = [ret EXCEPT ![c] = IF e # "" THEN Raise(e) ELSE NoReturn]
       /\ args' = [args EXCEPT ![c] = a]
       /\ X' = [X EXCEPT ![c] = <<>>]
       /\ acc' = [acc EXCEPT ![c] = 0]
       /\ u_prev' = [u_prev EXCEPT ![c] = a.u0]
       /\ Kc' = [Kc EXCEPT ![c] = p.Kc]
       /\ K_inverse' = [K_inverse EXCEPT ![c] = p.K_inverse]
       /\ lt_prev' = [lt_prev EXCEPT ![c] = IF IsExc(p.lt_prev) THEN None ELSE p.lt_prev]
       /\ i' = [i EXCEPT ![c] = 0]
       /\ evals' = [evals EXCEPT ![c] = p.evals]
       /\ called' = [called EXCEPT ![c] = p.calls]
       /\ rng0' = [rng0 EXCEPT ![c] = rng]
       /\ alone' = [alone EXCEPT ![c] = TRUE]
       /\ hist' = [hist EXCEPT ![c] = <<>>]
       /\ UNCHANGED <<rng, u_new, lt_new, log_alpha, log_u, accept, subVars>>

\* Worker c runs one pass of the loop body, drawing from the generator state
\* r; after the last pass the return statement runs too.
IterateFrom(c, r) ==
  /\ pc[c] = "loop"
  /\ \E b \in {Body(args[c], Kc[c], K_inverse[c],
                    [X |-> X[c], acc |-> acc[c], u_prev |-> u_prev[c],
                     lt_prev |-> lt_prev[c]],
                    r)} :
       LET last == i[c] + 1 = args[c].n_iters
           rt == Return(b.s.X, b.s.acc, args[c].n_iters)
       IN /\ rng' = b.rng
          /\ alone' = [d \in Workers |->
                         IF d # c /\ pc[d] = "loop" THEN FALSE ELSE alone[d]]
          /\ u_new' = [u_new EXCEPT ![c] = b.u_new]
          /\ lt_new' = [lt_new EXCEPT ![c] = IF IsExc(b.lt_new) THEN None ELSE b.lt_new]
          /\ log_alpha' = [log_alpha EXCEPT ![c] = b.log_alpha]
          /\ log_u' = [log_u EXCEPT ![c] = b.log_u]
          /\ accept' = [accept EXCEPT ![c] = b.accept]
          /\ evals' = [evals EXCEPT ![c] = @ + 1]
          /\ called' = [called EXCEPT ![c] = @ \cup b.calls]
          /\ X' = [X EXCEPT ![c] = b.s.X]
          /\ acc' = [acc EXCEPT ![c] = b.s.acc]
          /\ u_prev' = [u_prev EXCEPT ![c] = b.s.u_prev]
          /\ lt_prev' = [lt_prev EXCEPT ![c] = b.s.lt_prev]
          /\ hist' = [hist EXCEPT ![c] = IF b.exc # "" THEN @ ELSE Append(@, b.accept)]
          /\ i' = [i EXCEPT ![c] = IF b.exc # "" THEN @ ELSE @ + 1]
          /\ pc' = [pc EXCEPT ![c] =
                      IF b.exc # "" THEN "error" ELSE IF last THEN "done" ELSE "loop"]
          /\ ret' = [ret EXCEPT ![c] =
                       IF b.exc # "" THEN Raise(b.exc) ELSE IF last THEN rt ELSE NoReturn]
          /\ UNCHANGED <<args, Kc, K_inverse, rng0, subVars>>

\* A pass whose draws come from a fresh, unseeded source instead of the
\* global generator.
IterateEntropy(c) == \E r \in 0..(RngMod - 1) : IterateFrom(c, r)

\* A pass of worker c: the draws come from the global generator.
Iterate(c) == IterateFrom(c, rng)

\* subsample(N, factor, seed) is called.
Subsample(N, factor, sd) ==
  LET r == subsample(N, factor, sd, rng)
  IN /\ sargs' = [N |-> N, factor |-> factor, seed |-> sd]
     /\ idx' = r.idx
     /\ sexc' = r.exc
     /\ rng' = r.rng
     /\ gpc' = IF r.exc # "" THEN "start" ELSE "sampled"
     /\ Gm' = <<>>
     /\ UNCHANGED samplerVars

\* get_G(N, idx) is called with the indices subsample returned.
GetG ==
  /\ gpc = "sampled"
  /\ Gm' = get_G(sargs.N, idx)
  /\ gpc' = "built"
  /\ UNCHANGED <<rng, sargs, idx, sexc, samplerVars>>

\* One sampler call at a time, over every input.
Next ==
  \/ \E s \in 0..(RngMod - 1) : Seed({1}, s)
  \/ pc[1] = "idle" /\ \E a \in AllArgs : Call(1, a)
  \/ Iterate(1)

Spec == Init /\ [][Next]_vars

\* Two workers, each running one sampler call, their passes interleaved.
NextPar ==
  \/ \E s \in 0..(RngMod - 1) : Seed(Workers, s)
  \/ \E c \in Workers : pc[c] = "idle" /\ \E a \in ParArgs : Call(c, a)
  \/ \E c \in Workers : Iterate(c)

SpecPar == Init /\ [][NextPar]_vars

\* The subsampling pipeline.
NextSub ==
  \/ \E N \in 1..MaxN : \E factor \in Factors : \E sd \in {-1, 0, 1, 2} :
       Subsample(N, factor, sd)
  \/ GetG

SpecSub == Init /\ [][NextSub]_vars

\* ---------------------------------------------------------------- claims
Started(c) == pc[c] # "idle"
InLoopOrDone(c) == pc[c] \in {"loop", "done"}
RECURSIVE CountTrue(_)
CountTrue(h) ==
  IF h = <<>> THEN 0
  ELSE CountTrue(SubSeq(h, 1, Len(h) - 1)) + (IF h[Len(h)] THEN 1 ELSE 0)
\* Worker c has just completed a pass of the loop (this step).
PassOf(c) == pc[c] = "loop" /\ i'[c] = i[c] + 1

\* C1: at every point of the loop of grw and pcn the chain has one entry per
\* pass done and the accepted count is the number of accepted passes, at most
\* the passes done; a call that returns (n_iters >= 1) returns a chain of
\* exactly n_iters entries and the rate (accepted passes) / n_iters, which
\* lies in [0, 1].
C1_ChainLengthAndRate ==
  \A c \in Workers :
    /\ InLoopOrDone(c) =>
         /\ Len(X[c]) = i[c]
         /\ Len(hist[c]) = i[c]
         /\ acc[c] = CountTrue(hist[c])
         /\ 0 <= acc[c] /\ acc[c] <= i[c]
         /\ i[c] <= args[c].n_iters
    /\ pc[c] = "done" =>
         /\ args[c].n_iters >= 1
         /\ ret[c].exc = ""
         /\ Len(ret[c].X) = args[c].n_iters
         /\ ret[c].X = X[c]
         /\ ret[c].rate = [num |-> CountTrue(hist[c]), den |-> args[c].n_iters]
         /\ 0 <= ret[c].rate.num /\ ret[c].rate.num <= ret[c].rate.den

\* C1's case: a call that ran MaxIters passes, accepting some and rejecting
\* others, and returned.
C1_Witness ==
  \E c \in Workers :
    /\ pc[c] = "done" /\ args[c].n_iters = MaxIters
    /\ TRUE \in {hist[c][k] : k \in 1..Len(hist[c])}
    /\ FALSE \in {hist[c][k] : k \in 1..Len(hist[c])}

\* C2: a pass of grw accepts exactly when log_u < lt_new - lt_prev; on accept
\* it appends u_new, moves u_prev and lt_prev to the proposal and adds one to
\* acc; on reject it appends u_prev again and leaves u_prev, lt_prev and acc
\* as they were.
C2_GrwAcceptReject ==
  [][\A c \in Workers :
       (args[c].sampler = "grw" /\ PassOf(c)) =>
         LET ok == FLt(log_u'[c], FSub(lt_new'[c], lt_prev[c]))
         IN /\ accept'[c] = ok
            /\ ok => /\ X'[c] = Append(X[c], u_new'[c])
                     /\ u_prev'[c] = u_new'[c]
                     /\ lt_prev'[c] = lt_new'[c]
                     /\ acc'[c] = acc[c] + 1
            /\ ~ok => /\ X'[c] = Append(X[c], u_prev[c])
                      /\ u_prev'[c] = u_prev[c]
                      /\ lt_prev'[c] = lt_prev[c]
                      /\ acc'[c] = acc[c]]_vars

\* C2's case: a grw run in which one pass accepted a proposal that differs
\* from the state before it and a later pass rejected.
C2_Witness ==
  \E c \in Workers :
    /\ args[c].sampler = "grw" /\ pc[c] = "done"
    /\ hist[c] = <<TRUE, FALSE>>
    /\ X[c][1] # args[c].u0
    /\ X[c][2] = X[c][1]

\* C3: a pass of pcn accepts exactly when log_u < ll_new - ll_prev, both
\* values of log_likelihood(u, y, G) alone, and log_prior never runs in pcn.
C3_PcnLikelihoodOnly ==
  [][\A c \in Workers :
       (args[c].sampler = "pcn" /\ PassOf(c)) =>
         LET a == args[c]
             ll_new == CallLikelihood(a.f, u_new'[c], a.data, a.G)
             ll_prev == CallLikelihood(a.f, u_prev[c], a.data, a.G)
         IN /\ accept'[c] = FLt(log_u'[c], FSub(ll_new, ll_prev))
            /\ "log_prior" \notin called'[c]]_vars

\* C3's case: a pcn pass whose decision the prior would have reversed: it was
\* accepted on the likelihood alone although the posterior ratio is below
\* log_u, or the other way round.
C3_Witness ==
  \E c \in Workers :
    /\ args[c].sampler = "pcn" /\ InLoopOrDone(c) /\ i[c] >= 1
    /\ LET before == IF i[c] = 1 THEN args[c].u0
                     ELSE X[c][i[c] - 1]
           post(u) == FAdd(log_prior(u, K_inverse[c]),
                           CallLikelihood(args[c].f, u, args[c].data, args[c].G))
       IN accept[c] # FLt(log_u[c], FSub(post(u_new[c]), post(before)))

\* C4: two calls with the same arguments started from the same generator
\* state, each run with the generator to itself, end the same way: the same
\* chain and the same rate (or the same exception).
C4_Reproducible ==
  \A c, d \in Workers :
    ( /\ pc[c] \in {"done", "error"} /\ pc[d] \in {"done", "error"}
      /\ args[c] = args[d] /\ rng0[c] = rng0[d]
      /\ alone[c] /\ alone[d] )
    => (pc[c] = pc[d] /\ ret[c] = ret[d] /\ X[c] = X[d] /\ acc[c] = acc[d])

\* C4's case: two completed runs of MaxIters passes from the same seed, with
\* the same arguments, one after the other.
C4_Witness ==
  /\ pc[1] = "done" /\ pc[2] = "done"
  /\ args[1] = args[2] /\ rng0[1] = rng0[2]
  /\ alone[1] /\ alone[2]
  /\ args[1].n_iters = MaxIters
  /\ acc[1] >= 1

\* C5: a sampler call whose passes are interleaved with another call's ends
\* as the same call does when run alone from the same generator state.
C5_InterleavedAsAlone ==
  \A c \in Workers :
    pc[c] \in {"done", "error"} => ret[c] = Run(args[c], rng0[c])

\* beta lies in the open interval (0, 1).
BetaInUnitInterval(beta) == 0 < beta.num /\ beta.num < beta.den

\* C6: pcn called with beta outside (0, 1) ends in an error before any pass
\* of the loop runs.
C6_BetaRejected ==
  \A c \in Workers :
    (Started(c) /\ args[c].sampler = "pcn" /\ ~BetaInUnitInterval(args[c].beta))
    => (pc[c] = "error" /\ i[c] = 0)

\* C7: a sampler call driven by a probit or Poisson density ends in an error
\* at the first evaluation: no value of such a density reaches the caller.
C7_PlaceholderFails ==
  \A c \in Workers :
    ( /\ Started(c)
      /\ args[c].f \in {"log_probit_likelihood", "log_poisson_likelihood",
                        "log_probit_target", "log_poisson_target"} )
    => pc[c] = "error"

AllEqual(seq, u) == \A k \in 1..Len(seq) : seq[k] = u

\* C8 as stated: with beta = 0 every returned chain holds u0 only and the
\* rate is 1.
C8_BetaZeroAllAccepted ==
  \A c \in Workers :
    (pc[c] = "done" /\ args[c].beta.num = 0)
    => /\ ret[c].rate.num = ret[c].rate.den
       /\ AllEqual(ret[c].X, args[c].u0)
       /\ AllEqual(hist[c], TRUE)

\* C8, amended: with beta = 0 and a log-density that is finite at u0, every
\* proposal equals the current state, every pass is accepted, every chain
\* entry is u0 and the returned rate is 1.
C8_BetaZeroFiniteDensity ==
  \A c \in Workers :
    ( /\ InLoopOrDone(c) /\ args[c].beta.num = 0
      /\ IsFinite(Eval(args[c], K_inverse[c], args[c].u0).val) )
    => /\ AllEqual(hist[c], TRUE)
       /\ acc[c] = i[c]
       /\ AllEqual(X[c], args[c].u0)
       /\ u_prev[c] = args[c].u0
       /\ i[c] >= 1 => u_new[c] = args[c].u0
       /\ pc[c] = "done" =>
            /\ ret[c].rate.num = ret[c].rate.den
            /\ AllEqual(ret[c].X, args[c].u0)

\* C8's case: a run of MaxIters passes with beta = 0 from a non-zero u0 with
\* a finite density, in which the uniform draw 0 (log_u = -inf) occurred.
C8_Witness ==
  \E c \in Workers :
    /\ pc[c] = "done" /\ args[c].beta.num = 0 /\ args[c].n_iters = MaxIters
    /\ args[c].u0 = VecOf(<<1, -1>>)
    /\ IsFinite(lt_prev[c])
    /\ log_u[c] = NInf

\* The least M with M * factor >= N, that is ceil(N / factor).
Ceil(N, factor) ==
  CHOOSE M \in 0..(N * factor.den) :
    /\ M * factor.num >= N * factor.den
    /\ (M - 1) * factor.num < N * factor.den

\* C9: for N >= 1 and factor >= 1, subsample returns ceil(N / factor) distinct
\* indices in 0..N-1, and get_G builds from them an M x N matrix of zeros and
\* ones with one 1 per row, at column idx[i], and at most one 1 per column.
C9_SubsampleAndG ==
  LET N == sargs.N
      M == Len(idx)
  IN /\ gpc \in {"sampled", "built"} =>
          /\ sargs.factor.num >= sargs.factor.den
          /\ M = Ceil(N, sargs.factor)
          /\ M <= N
          /\ \A r \in 1..M : idx[r] \in 0..(N - 1)
          /\ \A r, q \in 1..M : r # q => idx[r] # idx[q]
     /\ gpc = "built" =>
          /\ Len(Gm) = M
          /\ \A r \in 1..M :
               /\ Len(Gm[r]) = N
               /\ \A c \in 1..N : Gm[r][c] \in {0, 1}
               /\ ISum(Gm[r]) = 1
               /\ Gm[r][idx[r] + 1] = 1
          /\ \A c \in 1..N : ISum([r \in 1..M |-> Gm[r][c]]) <= 1

\* C9's case: N = MaxN subsampled by the factor 2, and G built.
C9_Witness ==
  /\ gpc = "built" /\ sargs.N = MaxN /\ sargs.factor = [num |-> 2, den |-> 1]
  /\ Len(Gm) >= 2

\* C10: at the head of every pass, and when the call returns, the cached
\* density is the density at u_prev, u_prev is the last chain entry (u0 for
\* an empty chain), and the density has been evaluated once before the loop
\* and once per pass, the last time at the last proposal.
C10_CacheConsistent ==
  \A c \in Workers :
    InLoopOrDone(c) =>
      /\ lt_prev[c] = Eval(args[c], K_inverse[c], u_prev[c]).val
      /\ u_prev[c] = IF X[c] = <<>> THEN args[c].u0 ELSE X[c][Len(X[c])]
      /\ evals[c] = i[c] + 1
      /\ i[c] >= 1 => lt_new[c] = Eval(args[c], K_inverse[c], u_new[c]).val

\* C10's case: a run in which an accepted pass moved the chain and the next
\* pass rejected, so the cache had to follow the first and survive the second.
C10_Witness ==
  \E c \in Workers :
    /\ pc[c] = "done" /\ hist[c] = <<TRUE, FALSE>>
    /\ u_prev[c] # args[c].u0
    /\ lt_prev[c] # lt_new[c]
    /\ IsFinite(lt_prev[c])

====
